---- MODULE Spec2Model ----
(***************************************************************************)
(* Model of peppi's replay encoder (src/peppi/src/unparse.rs).             *)
(*                                                                         *)
(* `unparse` writes a Game to a byte sink: a fixed envelope, the           *)
(* payload-size meta-event, the game-start event, the frame stream, the    *)
(* game-end event and the metadata block.  The sink is a sequence of       *)
(* bytes (0..255).  Every per-event encoder is an operator that returns    *)
(* the bytes the Rust function writes; every call `unparse` makes is one   *)
(* action that hands these bytes to the sink, which either accepts them    *)
(* all or fails after accepting a strict prefix.                           *)
(***************************************************************************)
EXTENDS Integers, Sequences, FiniteSets, TLC

VARIABLES
  game,    \* the Game being encoded (never changed by the encoder)
  calls,   \* how many times the caller encodes it, each time to a fresh sink
  call,    \* the number of the current unparse call
  w,       \* the bytes the current call's sink has accepted
  log,     \* the events written completely: [ev, off, len], off the offset in w
  pc,      \* the position of the current call inside unparse
  cursor,  \* the position inside frames(): the next encoder call it makes
  order,   \* the order in which this call iterated the payload-size table
  result,  \* "running", or how the call ended: "Ok", "Err" or "Panic"
  prev     \* the complete output of the previous call, if there was one

vars == <<game, calls, call, w, log, pc, cursor, order, result, prev>>

---------------------------------------------------------------------------
(* Bounds of the model.                                                    *)

MaxMinor == 9
MaxFrames == 2
MaxPorts == 2
MaxItems == 2

---------------------------------------------------------------------------
(* Constants of the crate that unparse.rs imports (game.rs, parse.rs,      *)
(* item.rs); their defining files are not part of the source at hand.      *)

NUM_PORTS == 4
MAX_PLAYERS == 6
FIRST_FRAME_INDEX == -123
PAYLOADS_EVENT_CODE == 53

EventCode ==
  [GameStart |-> 54, FramePre |-> 55, FramePost |-> 56, GameEnd |-> 57,
   FrameStart |-> 58, Item |-> 59, FrameEnd |-> 60]

\* widths of the fixed-size byte arrays game::Start::bitfield,
\* game::Start::item_spawn_bitfield and item::Item::misc
BitfieldLen == 4
ItemSpawnBitfieldLen == 5
MiscLen == 4

---------------------------------------------------------------------------
(* Bytes.                                                                  *)

Min(a, b) == IF a < b THEN a ELSE b

Zeros(n) == [i \in 1..n |-> 0]

\* n bytes copied from a field of the model whose value no claim depends on
Data(n) == [i \in 1..n |-> 170]

\* write_u16/u32/i32::<BE>: the n-byte big-endian two's complement form of x
BE(x, n) == [i \in 1..n |-> (x \div (256 ^ (n - i))) % 256]

\* `b as u8` for a bool
Bool(b) == IF b THEN <<1>> ELSE <<0>>

\* what a reader of the stream gets back from 4 big-endian bytes as an i32
DecodeI32(b) ==
  LET low == b[2] * 65536 + b[3] * 256 + b[4]
  IN  IF b[1] >= 128 THEN (b[1] - 256) * 16777216 + low
                     ELSE b[1] * 16777216 + low

DecodeU16(b) == b[1] * 256 + b[2]

RECURSIVE Flatten(_)
Flatten(ss) == IF ss = <<>> THEN <<>> ELSE Head(ss) \o Flatten(Tail(ss))

IsPrefix(s, t) == Len(s) <= Len(t) /\ SubSeq(t, 1, Len(s)) = s

---------------------------------------------------------------------------
(* Versions.                                                               *)

version(major, minor) == <<major, minor, 0>>

\* slippi::Version derives its ordering: lexicographic on the triple
VerGE(a, b) ==
  \/ a[1] > b[1]
  \/ a[1] = b[1] /\ a[2] > b[2]
  \/ a[1] = b[1] /\ a[2] = b[2] /\ a[3] >= b[3]

---------------------------------------------------------------------------
(* Text.  A String is a sequence of code points; SHIFT_JIS.encode maps     *)
(* ASCII to one byte, half-width katakana to one byte, JIS X 0208          *)
(* characters to two bytes and anything else to a numeric character        *)
(* reference "&#N;".                                                       *)

RECURSIVE Digits(_)
Digits(n) == IF n < 10 THEN <<48 + n>> ELSE Digits(n \div 10) \o <<48 + (n % 10)>>

ShiftJisChar(c) ==
  IF c < 128 THEN <<c>>
  ELSE IF c >= 65377 /\ c <= 65439 THEN <<c - 65377 + 161>>
  ELSE IF c = 12354 THEN <<130, 160>>
  ELSE <<38, 35>> \o Digits(c) \o <<59>>

ShiftJisEncode(s) == Flatten([i \in 1..Len(s) |-> ShiftJisChar(s[i])])

---------------------------------------------------------------------------
(* Payload sizes (unparse.rs 26-36).  The table is a HashMap; the order in *)
(* which a HashMap is iterated is not fixed by the program.                *)

EventKinds ==
  <<"GameStart", "FramePre", "FramePost", "GameEnd", "FrameStart", "Item", "FrameEnd">>

payload_sizes(ver) ==
  [GameStart |-> 420, FramePre |-> 63, FramePost |-> 72, GameEnd |-> 2,
   FrameStart |-> 8, Item |-> 42, FrameEnd |-> 8]

Reverse(s) == [i \in 1..Len(s) |-> s[Len(s) + 1 - i]]

\* orders in which `for (event, size) in payload_sizes` may visit the table:
\* two of the permutations of its keys
IterOrders(m) ==
  LET keys == SelectSeq(EventKinds, LAMBDA e : e \in DOMAIN m)
  IN  {keys, Reverse(keys)}

payloads_event_count_short(m, ord) ==
  <<PAYLOADS_EVENT_CODE, (Len(ord) * 3) % 256>>
    \o Flatten([i \in 1..Len(ord) |-> <<EventCode[ord[i]]>> \o BE(m[ord[i]], 2)])

\* unparse.rs 329-334
payloads_event(m, ord) ==
  <<PAYLOADS_EVENT_CODE, (Len(ord) * 3 + 1) % 256>>
    \o Flatten([i \in 1..Len(ord) |-> <<EventCode[ord[i]]>> \o BE(m[ord[i]], 2)])

---------------------------------------------------------------------------
(* write_shift_jis (unparse.rs 38-48).  An encoder threads a record        *)
(* [out, ok]: the bytes written so far and whether it is still running     *)
(* (ok = FALSE after a panic).                                             *)

Put(st, bytes) == IF st.ok THEN [out |-> st.out \o bytes, ok |-> TRUE] ELSE st

write_shift_jis_truncating(st, s, max_size) ==
  LET bytes == ShiftJisEncode(s)
      kept == SubSeq(bytes, 1, Min(Len(bytes), max_size))
  IN  IF ~st.ok THEN st
      ELSE [out |-> st.out \o kept \o Zeros(max_size - Len(kept)), ok |-> TRUE]

write_shift_jis(st, s, max_size) ==
  LET bytes == ShiftJisEncode(s)
  IN  IF ~st.ok THEN st
      ELSE IF Len(bytes) > max_size THEN [out |-> st.out, ok |-> FALSE]
      ELSE [out |-> st.out \o bytes \o Zeros(max_size - Len(bytes)), ok |-> TRUE]

---------------------------------------------------------------------------
(* game_start (unparse.rs 50-148).                                         *)

\* lines 53-76: tag, version, build number and the fixed game settings
start_fixed(s, ver) ==
  <<EventCode.GameStart>> \o <<ver[1], ver[2], ver[3]>> \o <<0>>
    \o Data(BitfieldLen) \o Data(2) \o Data(1) \o Data(1) \o Data(1) \o Data(2)
    \o Data(1) \o Data(1) \o Data(1) \o Data(2) \o Data(4) \o Data(15)
    \o Data(ItemSpawnBitfieldLen) \o Data(8) \o Data(4) \o Data(44)

\* lines 78-95: one populated player slot
start_player(p) ==
  Data(1) \o Data(1) \o Data(1) \o Data(1) \o Data(3) \o Data(1) \o Data(1)
    \o Data(1) \o Data(2) \o Data(1) \o Data(2) \o Data(1) \o Data(4)
    \o Data(4) \o Data(4) \o Data(4) \o Data(4)

\* lines 77-101: the player blocks, the empty slots up to MAX_PLAYERS, the seed
start_players(s) ==
  Flatten([i \in 1..Len(s.players) |-> start_player(s.players[i])])
    \o Flatten([i \in 1..(MAX_PLAYERS - Len(s.players)) |-> <<0, 3>> \o Zeros(34)])
    \o Data(4)

\* line 103
empty_player_slots(s) == NUM_PORTS - Len(s.players)

start_ucf_unpadded(s, ver) ==
  IF VerGE(ver, version(1, 0))
  THEN Flatten([i \in 1..Len(s.players) |-> Data(4) \o Data(4)])
  ELSE <<>>

\* lines 104-112
start_ucf(s, ver) ==
  IF VerGE(ver, version(1, 0))
  THEN Flatten([i \in 1..Len(s.players) |-> Data(4) \o Data(4)])
         \o Flatten([i \in 1..empty_player_slots(s) |-> Zeros(8)])
  ELSE <<>>

RECURSIVE start_name_tags(_, _)
start_name_tags(st, players) ==
  IF players = <<>> THEN st
  ELSE start_name_tags(write_shift_jis(st, Head(players).name_tag, 16), Tail(players))

RECURSIVE start_netplay(_, _)
start_netplay(st, players) ==
  IF players = <<>> THEN st
  ELSE start_netplay(
         write_shift_jis(write_shift_jis(st, Head(players).netplay.name, 31),
                         Head(players).netplay.code, 10),
         Tail(players))

game_start(s, ver) ==
  LET st0 == [out |-> start_fixed(s, ver) \o start_players(s) \o start_ucf(s, ver),
              ok |-> TRUE]
      \* lines 114-121
      st1 == IF VerGE(ver, version(1, 3))
             THEN Put(start_name_tags(st0, s.players),
                      Flatten([i \in 1..empty_player_slots(s) |-> Zeros(16)]))
             ELSE st0
      \* lines 123-125
      st2 == IF VerGE(ver, version(1, 5)) THEN Put(st1, Data(1)) ELSE st1
      \* lines 127-129
      st3 == IF VerGE(ver, version(2, 0)) THEN Put(st2, Data(1)) ELSE st2
      \* lines 131-134
      st4 == IF VerGE(ver, version(3, 7)) THEN Put(st3, Data(1) \o Data(1)) ELSE st3
      \* lines 136-145
      st5 == IF VerGE(ver, version(3, 9))
             THEN Put(start_netplay(st4, s.players),
                      Flatten([i \in 1..empty_player_slots(s) |-> Zeros(41)]))
             ELSE st4
  IN  st5

---------------------------------------------------------------------------
(* game_end and the frame sub-event encoders (unparse.rs 150-284).         *)

game_end(e, ver) ==
  <<EventCode.GameEnd>> \o Data(1)
    \o (IF VerGE(ver, version(2, 0)) THEN Data(1) ELSE <<>>)

frame_start(s, ver, frame_idx) ==
  <<EventCode.FrameStart>> \o BE(frame_idx, 4) \o Data(4)

frame_pre(p, ver, id) ==
  <<EventCode.FramePre>> \o BE(id.index, 4) \o <<id.port>> \o Bool(id.is_follower)
    \o Data(4) \o Data(2) \o Data(4) \o Data(4) \o Data(4) \o Data(4) \o Data(4)
    \o Data(4) \o Data(4) \o Data(4) \o Data(4) \o Data(2) \o Data(4) \o Data(4)
    \o (IF VerGE(ver, version(1, 2)) THEN Data(1) ELSE <<>>)
    \o (IF VerGE(ver, version(1, 4)) THEN Data(4) ELSE <<>>)

post_hitlag_from_3_9(p, ver) == IF VerGE(ver, version(3, 9)) THEN Data(4) ELSE <<>>

\* lines 244-246
post_hitlag(p, ver) == IF VerGE(ver, version(3, 8)) THEN Data(4) ELSE <<>>

frame_post(p, ver, id) ==
  <<EventCode.FramePost>> \o BE(id.index, 4) \o <<id.port>> \o Bool(id.is_follower)
    \o Data(1) \o Data(2) \o Data(4) \o Data(4) \o Data(4) \o Data(4) \o Data(4)
    \o Data(1) \o Data(1) \o Data(1) \o Data(1)
    \o (IF VerGE(ver, version(0, 2)) THEN Data(4) ELSE <<>>)
    \o (IF VerGE(ver, version(2, 0))
        THEN Data(5) \o Data(4) \o Bool(p.airborne) \o Data(2) \o Data(1) \o Data(1)
        ELSE <<>>)
    \o (IF VerGE(ver, version(2, 1)) THEN Data(1) ELSE <<>>)
    \o (IF VerGE(ver, version(3, 5))
        THEN (IF p.airborne THEN Data(4) ELSE Zeros(4))
               \o Data(4) \o Data(4) \o Data(4)
               \o (IF p.airborne THEN Zeros(4) ELSE Data(4))
        ELSE <<>>)
    \o post_hitlag(p, ver)

item(i, ver, frame_idx) ==
  <<EventCode.Item>> \o BE(frame_idx, 4)
    \o Data(2) \o Data(1) \o Data(4) \o Data(4) \o Data(4) \o Data(4) \o Data(4)
    \o Data(2) \o Data(4) \o BE(i.id, 4)
    \o (IF VerGE(ver, version(3, 2)) THEN Data(MiscLen) ELSE <<>>)
    \o (IF VerGE(ver, version(3, 6)) THEN Data(1) ELSE <<>>)

frame_end(e, ver, frame_idx) ==
  <<EventCode.FrameEnd>> \o BE(frame_idx, 4)
    \o (IF VerGE(ver, version(3, 7)) THEN Data(4) ELSE <<>>)

---------------------------------------------------------------------------
(* frames (unparse.rs 286-321): the encoder calls the loop makes, in       *)
(* order.  A call is [fn, f, index, port, is_follower, item]: the encoder, *)
(* the position of the frame in the list, the PortId fields or frame       *)
(* index it is given, and the position of the item in the frame's list.    *)

Call(fn, f, index, port, is_follower, it) ==
  [fn |-> fn, f |-> f, index |-> index, port |-> port, is_follower |-> is_follower,
   item |-> it]

port_calls_leader_first(p, k, frame_idx, port_idx) ==
  <<Call("frame_pre", k, frame_idx, port_idx, FALSE, 0)>>
    \o <<Call("frame_post", k, frame_idx, port_idx, FALSE, 0)>>
    \o (IF p.follower THEN <<Call("frame_pre", k, frame_idx, port_idx, TRUE, 0)>> ELSE <<>>)
    \o (IF p.follower THEN <<Call("frame_post", k, frame_idx, port_idx, TRUE, 0)>> ELSE <<>>)

\* lines 295-303: the calls for one port slot
port_calls(p, k, frame_idx, port_idx) ==
  <<Call("frame_pre", k, frame_idx, port_idx, FALSE, 0)>>
    \o (IF p.follower THEN <<Call("frame_pre", k, frame_idx, port_idx, TRUE, 0)>> ELSE <<>>)
    \o <<Call("frame_post", k, frame_idx, port_idx, FALSE, 0)>>
    \o (IF p.follower THEN <<Call("frame_post", k, frame_idx, port_idx, TRUE, 0)>> ELSE <<>>)

\* lines 293-306, from port slot port_idx on
RECURSIVE frames_ports(_, _, _, _)
frames_ports(ports, k, frame_idx, port_idx) ==
  IF ports = <<>> THEN <<>>
  ELSE port_calls(Head(ports), k, frame_idx, port_idx)
         \o frames_ports(Tail(ports), k, frame_idx, port_idx + 1)

\* lines 288-319, from the k-th frame of the list on
RECURSIVE frames_from(_, _, _, _)
frames_from(fs, k, ver, frame_idx) ==
  IF k > Len(fs) THEN <<>>
  ELSE LET f == fs[k]
       IN  (IF VerGE(ver, version(2, 2))
            THEN <<Call("frame_start", k, frame_idx, 0, FALSE, 0)>> ELSE <<>>)
             \o frames_ports(f.ports, k, frame_idx, 0)
             \o (IF VerGE(ver, version(3, 0))
                 THEN [j \in 1..Len(f.items) |-> Call("item", k, frame_idx, 0, FALSE, j)]
                 ELSE <<>>)
             \o (IF VerGE(ver, version(3, 0))
                 THEN <<Call("frame_end", k, frame_idx, 0, FALSE, 0)>> ELSE <<>>)
             \o frames_from(fs, k + 1, ver, frame_idx + 1)

frames_from_zero(fs, ver) == frames_from(fs, 1, ver, 0)

frames(fs, ver) == frames_from(fs, 1, ver, FIRST_FRAME_INDEX)

---------------------------------------------------------------------------
(* ubjson::unparse_map.  A map is a sequence of <<key, value>> pairs, a    *)
(* key is a sequence of bytes, a value is [int |-> n] or [map |-> m].      *)

RECURSIVE unparse_map(_)
unparse_map(m) ==
  IF m = <<>> THEN <<>>
  ELSE LET k == Head(m)[1]
           v == Head(m)[2]
       IN  <<85, Len(k)>> \o k
             \o (IF "int" \in DOMAIN v THEN <<108>> \o BE(v.int, 4)
                 ELSE <<123>> \o unparse_map(v.map) \o <<125>>)
             \o unparse_map(Tail(m))

---------------------------------------------------------------------------
(* The games the model encodes.                                            *)

Rep(c, n) == [i \in 1..n |-> c]

Player(tag, name, code) ==
  [name_tag |-> tag, netplay |-> [name |-> name, code |-> code]]

\* 65 = "A", 12354 = hiragana A (2 bytes), 65393 = half-width katakana A
\* (1 byte), 128512 = an emoji Shift JIS cannot represent (9 bytes)
ShortPlayer == Player(<<65, 65, 65>>, <<65, 66>>, <<65>>)

PlayerProfiles ==
  { ShortPlayer,
    Player(<<>>, <<>>, <<>>),
    Player(Rep(12354, 8), Rep(12354, 15) \o <<65>>, Rep(65393, 10)),
    Player(Rep(12354, 8) \o <<65>>, <<65, 66>>, <<65>>),
    Player(<<65, 65, 65>>, Rep(65, 32), <<65>>),
    Player(<<65, 65, 65>>, <<65, 66>>, <<128512, 65, 65>>) }

\* n players, the last one with profile p, the others short
PlayerLists ==
  {<<>>} \cup
  { [i \in 1..n |-> IF i = n THEN p ELSE ShortPlayer] :
      n \in 1..NUM_PORTS, p \in PlayerProfiles }

\* the released major versions, each with the minors 0..MaxMinor
GridVersions == { version(a, b) : a \in 0..3, b \in 0..MaxMinor }

\* versions on both sides of the two gates inside frames()
GateVersions == { <<2, 1, 1>>, <<2, 2, 0>>, <<3, 0, 0>> }

Items(k) == [j \in 1..MaxItems |-> [id |-> 16 * k + (MaxItems + 1 - j)]]

\* the k-th frame of a game with n port slots: the slots in fol have a
\* follower in the odd frames, the others in the even frames; the frames
\* with items are the odd ones or the even ones
FrameOf(k, n, fol, it) ==
  [ports |-> [i \in 1..n |->
                [follower |-> ((i - 1) \in fol) = (k % 2 = 1), airborne |-> i % 2 = 1]],
   items |-> IF it = (k % 2 = 1) THEN Items(k) ELSE <<>>]

FrameLists ==
  { [k \in 1..len |-> FrameOf(k, n, fol, it)] :
      len \in 0..MaxFrames, it \in BOOLEAN,
      <<n, fol>> \in { <<a, b>> \in (1..Min(MaxPorts, NUM_PORTS)) \X SUBSET (0..(NUM_PORTS - 1)) :
                         b \subseteq 0..(a - 1) } }

OneFrame == <<FrameOf(1, 1, {}, TRUE)>>

Metas ==
  { <<>>,
    << <<(<<97>>), [int |-> 1]>>,
       <<(<<98, 99>>), [map |-> << <<(<<100>>), [int |-> 2]>> >>]>> >> }

MkGame(ver, players, fs, meta) ==
  [ver |-> ver, start |-> [players |-> players], frames |-> fs, metadata_raw |-> meta]

\* every version with every player list, and every version with a frame
StartGames ==
  { MkGame(v, ps, <<>>, <<>>) : v \in GridVersions, ps \in PlayerLists }
    \cup { MkGame(v, <<ShortPlayer>>, OneFrame, <<>>) : v \in GridVersions }

FrameGames ==
  { MkGame(v, <<ShortPlayer>>, fs, <<>>) : v \in GateVersions, fs \in FrameLists }

TwiceGames ==
  { MkGame(v, <<ShortPlayer>>, OneFrame, m) : v \in GateVersions, m \in Metas }

---------------------------------------------------------------------------
(* The sink and the steps of unparse (unparse.rs 323-353).                 *)

\* how many bytes of a write of n bytes a failing sink may have accepted
FailOffsets(n) == IF n = 0 THEN {} ELSE {0, n - 1}

Emit_keeps_going(ev, st, nextpc, nextcursor) ==
  \/ /\ st.ok
     /\ w' = w \o st.out
     /\ log' = Append(log, [ev |-> ev, off |-> Len(w), len |-> Len(st.out)])
     /\ pc' = nextpc
     /\ cursor' = nextcursor
     /\ result' = IF nextpc = "done" THEN "Ok" ELSE result
  \/ /\ ~st.ok
     /\ w' = w \o st.out
     /\ pc' = "done"
     /\ result' = "Panic"
     /\ UNCHANGED <<log, cursor>>
  \/ \E k \in FailOffsets(Len(st.out)) :
       /\ w' = w \o SubSeq(st.out, 1, k)
       /\ pc' = nextpc
       /\ cursor' = nextcursor
       /\ result' = "Err"
       /\ UNCHANGED log

\* One call of unparse hands the bytes st.out to the sink.  Either the sink
\* accepts them all, and the call goes on (or panics after them when
\* ~st.ok), or a write fails: `?` returns the error at once.
Emit(ev, st, nextpc, nextcursor) ==
  \/ /\ st.ok
     /\ w' = w \o st.out
     /\ log' = Append(log, [ev |-> ev, off |-> Len(w), len |-> Len(st.out)])
     /\ pc' = nextpc
     /\ cursor' = nextcursor
     /\ result' = IF nextpc = "done" THEN "Ok" ELSE result
  \/ /\ ~st.ok
     /\ w' = w \o st.out
     /\ pc' = "done"
     /\ result' = "Panic"
     /\ UNCHANGED <<log, cursor>>
  \/ \E k \in FailOffsets(Len(st.out)) :
       /\ w' = w \o SubSeq(st.out, 1, k)
       /\ pc' = "done"
       /\ result' = "Err"
       /\ UNCHANGED <<log, cursor>>

Bytes(b) == [out |-> b, ok |-> TRUE]

Calls == frames(game.frames, game.ver)

PortIdOf(c) == [index |-> c.index, port |-> c.port, is_follower |-> c.is_follower]

FrameAt(c) == game.frames[c.f]

\* the frame::Post of the entity a call is about
PostOf(c) ==
  [airborne |-> IF c.is_follower THEN FALSE ELSE FrameAt(c).ports[c.port + 1].airborne]

Init ==
  /\ \E r \in ((StartGames \cup FrameGames) \X {1}) \cup (TwiceGames \X {2}) :
       game = r[1] /\ calls = r[2]
  /\ call = 1
  /\ w = <<>>
  /\ log = <<>>
  /\ pc = "envelope"
  /\ cursor = 1
  /\ order = <<>>
  /\ result = "running"
  /\ prev = <<>>

\* lines 324-326
Envelope ==
  /\ pc = "envelope"
  /\ Emit("Envelope",
          Bytes(<<123, 85, 3, 114, 97, 119, 91, 36, 85, 35, 108>> \o BE(0, 4)),
          "payloads", cursor)
  /\ UNCHANGED <<game, calls, call, order, prev>>

\* lines 328-334
PayloadSizes ==
  /\ pc = "payloads"
  /\ LET m == payload_sizes(game.ver)
     IN  \E ord \in IterOrders(m) :
           /\ order' = ord
           /\ Emit("Payloads", Bytes(payloads_event(m, ord)), "game_start", cursor)
  /\ UNCHANGED <<game, calls, call, prev>>

\* lines 336-337
GameStart ==
  /\ pc = "game_start"
  /\ Emit("GameStart", game_start(game.start, game.ver), "frames", 1)
  /\ UNCHANGED <<game, calls, call, order, prev>>

FrameCall(fn) == pc = "frames" /\ cursor <= Len(Calls) /\ Calls[cursor].fn = fn

\* line 290
FrameStart ==
  /\ FrameCall("frame_start")
  /\ Emit("FrameStart", Bytes(frame_start(FrameAt(Calls[cursor]), game.ver, Calls[cursor].index)),
          "frames", cursor + 1)
  /\ UNCHANGED <<game, calls, call, order, prev>>

\* lines 295-298
FramePre ==
  /\ FrameCall("frame_pre")
  /\ Emit("FramePre", Bytes(frame_pre(FrameAt(Calls[cursor]), game.ver, PortIdOf(Calls[cursor]))),
          "frames", cursor + 1)
  /\ UNCHANGED <<game, calls, call, order, prev>>

\* lines 300-303
FramePost ==
  /\ FrameCall("frame_post")
  /\ Emit("FramePost", Bytes(frame_post(PostOf(Calls[cursor]), game.ver, PortIdOf(Calls[cursor]))),
          "frames", cursor + 1)
  /\ UNCHANGED <<game, calls, call, order, prev>>

\* lines 308-312
Item ==
  /\ FrameCall("item")
  /\ LET c == Calls[cursor]
     IN  Emit("Item", Bytes(item(FrameAt(c).items[c.item], game.ver, c.index)),
              "frames", cursor + 1)
  /\ UNCHANGED <<game, calls, call, order, prev>>

\* lines 314-316
FrameEnd ==
  /\ FrameCall("frame_end")
  /\ Emit("FrameEnd", Bytes(frame_end(FrameAt(Calls[cursor]), game.ver, Calls[cursor].index)),
          "frames", cursor + 1)
  /\ UNCHANGED <<game, calls, call, order, prev>>

\* line 344, once frames() has returned
GameEnd ==
  /\ pc = "frames"
  /\ cursor > Len(Calls)
  /\ Emit("GameEnd", Bytes(game_end(game, game.ver)), "metadata", cursor)
  /\ UNCHANGED <<game, calls, call, order, prev>>

\* lines 346-352
Metadata ==
  /\ pc = "metadata"
  /\ Emit("Metadata",
          Bytes(<<85, 8, 109, 101, 116, 97, 100, 97, 116, 97, 123>>
                  \o unparse_map(game.metadata_raw) \o <<125>> \o <<125>>),
          "done", cursor)
  /\ UNCHANGED <<game, calls, call, order, prev>>

\* the caller encodes the same game again, to a fresh sink
Again ==
  /\ pc = "done"
  /\ result = "Ok"
  /\ call < calls
  /\ call' = call + 1
  /\ prev' = w
  /\ w' = <<>>
  /\ log' = <<>>
  /\ pc' = "envelope"
  /\ cursor' = 1
  /\ order' = <<>>
  /\ result' = "running"
  /\ UNCHANGED <<game, calls>>

Next ==
  \/ Envelope
  \/ PayloadSizes
  \/ GameStart
  \/ FrameStart
  \/ FramePre
  \/ FramePost
  \/ Item
  \/ FrameEnd
  \/ GameEnd
  \/ Metadata
  \/ Again

Spec == Init /\ [][Next]_vars

---------------------------------------------------------------------------
(* Reading the sink back.                                                  *)

FrameKinds == {"FrameStart", "FramePre", "FramePost", "Item", "FrameEnd"}

\* the bytes of the i-th completely written event
EvBytes(i) == SubSeq(w, log[i].off + 1, log[i].off + log[i].len)

\* the entries of the payload-size meta-event, as a reader parses them
Declared ==
  LET b == EvBytes(2)
      n == (b[2] - 1) \div 3
  IN  [j \in 1..n |-> [code |-> b[3 * j], size |-> DecodeU16(<<b[3 * j + 1], b[3 * j + 2]>>)]]

\* the frame events written so far, each as <<tag, frame index, port,
\* follower flag, item id>> read from its bytes (0 where the kind has none)
FrameLog == SelectSeq(log, LAMBDA e : e.ev \in FrameKinds)

Decode(e) ==
  LET b == SubSeq(w, e.off + 1, e.off + e.len)
      tag == b[1]
      index == DecodeI32(SubSeq(b, 2, 5))
  IN  IF tag \in {EventCode.FramePre, EventCode.FramePost} THEN <<tag, index, b[6], b[7], 0>>
      ELSE IF tag = EventCode.Item THEN <<tag, index, 0, 0, DecodeI32(SubSeq(b, 35, 38))>>
      ELSE <<tag, index, 0, 0, 0>>

Decoded == [j \in 1..Len(FrameLog) |-> Decode(FrameLog[j])]

FramesReturned == pc = "metadata" \/ result = "Ok"

---------------------------------------------------------------------------
(* C1: two encodes of the same game, each to its own sink that never       *)
(* fails, produce the same bytes.                                          *)

C1_Deterministic == (call = 2 /\ result = "Ok") => w = prev

(* C2: the size the payload-size meta-event declares for an event kind is  *)
(* the number of bytes the encoder of that kind writes after the tag.      *)

C2_DeclaredSizesMatch ==
  \A i \in DOMAIN log : \A j \in (IF Len(log) >= 2 THEN DOMAIN Declared ELSE {}) :
    (log[i].ev \in DOMAIN EventCode /\ Declared[j].code = w[log[i].off + 1])
      => Declared[j].size = log[i].len - 1

(* C3: the payload-size table lists game start, game end, pre and post     *)
(* always, frame start iff version >= 2.2, item and frame end iff          *)
(* version >= 3.0.                                                         *)

C3_DeclaredKinds ==
  Len(log) >= 2 =>
    { Declared[j].code : j \in DOMAIN Declared } =
      { EventCode.GameStart, EventCode.GameEnd, EventCode.FramePre, EventCode.FramePost }
        \cup (IF VerGE(game.ver, <<2, 2, 0>>) THEN {EventCode.FrameStart} ELSE {})
        \cup (IF VerGE(game.ver, <<3, 0, 0>>) THEN {EventCode.Item, EventCode.FrameEnd} ELSE {})

(* C4: the payload widths of post, pre, item and frame-end events are the  *)
(* ones of the version table.                                              *)

Width(ev, v) ==
  CASE ev = "FramePost" ->
         IF VerGE(v, <<3, 8, 0>>) THEN 76 ELSE IF VerGE(v, <<3, 5, 0>>) THEN 72
         ELSE IF VerGE(v, <<2, 1, 0>>) THEN 52 ELSE IF VerGE(v, <<2, 0, 0>>) THEN 51
         ELSE IF VerGE(v, <<0, 2, 0>>) THEN 37 ELSE 33
    [] ev = "FramePre" ->
         IF VerGE(v, <<1, 4, 0>>) THEN 63 ELSE IF VerGE(v, <<1, 2, 0>>) THEN 59 ELSE 58
    [] ev = "Item" ->
         IF VerGE(v, <<3, 6, 0>>) THEN 42 ELSE IF VerGE(v, <<3, 2, 0>>) THEN 41 ELSE 37
    [] ev = "FrameEnd" ->
         IF VerGE(v, <<3, 7, 0>>) THEN 8 ELSE 4

C4_PayloadWidths ==
  \A i \in DOMAIN log :
    log[i].ev \in {"FramePost", "FramePre", "Item", "FrameEnd"}
      => /\ log[i].len - 1 = Width(log[i].ev, game.ver)
         /\ log[i].ev \in {"Item", "FrameEnd"} => VerGE(game.ver, <<3, 0, 0>>)

C4_Witness ==
  /\ result = "Ok"
  /\ VerGE(game.ver, <<3, 8, 0>>)
  /\ \A ev \in {"FramePost", "FramePre", "Item", "FrameEnd"} :
       \E i \in DOMAIN log : log[i].ev = ev

(* C5: per frame the events are: frame start (iff >= 2.2); per port slot   *)
(* leader pre, follower pre, leader post, follower post; the items in list *)
(* order and then frame end (iff >= 3.0); frames follow one another.       *)

ExpectedPort(k, i) ==
  LET idx == FIRST_FRAME_INDEX + k - 1
      fol == game.frames[k].ports[i].follower
  IN  <<(<<EventCode.FramePre, idx, i - 1, 0, 0>>)>>
        \o (IF fol THEN <<(<<EventCode.FramePre, idx, i - 1, 1, 0>>)>> ELSE <<>>)
        \o <<(<<EventCode.FramePost, idx, i - 1, 0, 0>>)>>
        \o (IF fol THEN <<(<<EventCode.FramePost, idx, i - 1, 1, 0>>)>> ELSE <<>>)

ExpectedFrame(k) ==
  LET idx == FIRST_FRAME_INDEX + k - 1
      f == game.frames[k]
  IN  (IF VerGE(game.ver, <<2, 2, 0>>) THEN <<(<<EventCode.FrameStart, idx, 0, 0, 0>>)>> ELSE <<>>)
        \o Flatten([i \in 1..Len(f.ports) |-> ExpectedPort(k, i)])
        \o (IF VerGE(game.ver, <<3, 0, 0>>)
            THEN [j \in 1..Len(f.items) |-> <<EventCode.Item, idx, 0, 0, f.items[j].id>>]
                   \o <<(<<EventCode.FrameEnd, idx, 0, 0, 0>>)>>
            ELSE <<>>)

ExpectedStream == Flatten([k \in 1..Len(game.frames) |-> ExpectedFrame(k)])

C5_FrameEventOrder ==
  /\ IsPrefix(Decoded, ExpectedStream)
  /\ FramesReturned => Decoded = ExpectedStream

C5_Witness ==
  /\ result = "Ok"
  /\ VerGE(game.ver, <<3, 0, 0>>)
  /\ Len(game.frames) >= 2
  /\ \E k \in DOMAIN game.frames :
       /\ Len(game.frames[k].ports) >= 2
       /\ game.frames[k].ports[1].follower
       /\ Len(game.frames[k].items) >= 2

(* C6: a call that returns Ok has written, once each and in this order,    *)
(* the 11-byte prologue, four zero bytes, the payload-size meta-event with *)
(* count byte 3 * entries + 1, game start, the frame stream, game end, the *)
(* metadata prologue, the metadata tree and two closing braces.            *)

C6_StreamLayout ==
  result = "Ok" =>
    LET n == Len(log)
        entries == (log[2].len - 2) \div 3
    IN  /\ n >= 5
        /\ log[1].off = 0
        /\ \A i \in 1..(n - 1) : log[i + 1].off = log[i].off + log[i].len
        /\ log[n].off + log[n].len = Len(w)
        /\ EvBytes(1) = <<123, 85, 3, 114, 97, 119, 91, 36, 85, 35, 108, 0, 0, 0, 0>>
        /\ w[16] = PAYLOADS_EVENT_CODE
        /\ w[17] = 3 * entries + 1
        /\ log[2].len = 2 + 3 * entries
        /\ entries = Cardinality({ Declared[j].code : j \in 1..entries })
        /\ log[3].ev = "GameStart"
        /\ log[n - 1].ev = "GameEnd"
        /\ \A i \in 4..(n - 2) : log[i].ev \in FrameKinds
        /\ \A i \in 3..(n - 1) : w[log[i].off + 1] = EventCode[log[i].ev]
        /\ Decoded = ExpectedStream
        /\ EvBytes(n) = <<85, 8, 109, 101, 116, 97, 100, 97, 116, 97, 123>>
                          \o unparse_map(game.metadata_raw) \o <<125, 125>>

C6_Witness ==
  /\ result = "Ok"
  /\ Len(FrameLog) >= 4
  /\ game.metadata_raw # <<>>

(* C7: when a write to the sink fails, nothing more is written, the call   *)
(* ends with that error and never with Ok, and what the sink accepted is a *)
(* prefix of what a sink that never fails would have received.             *)

call_bytes(c) ==
  CASE c.fn = "frame_start" -> frame_start(FrameAt(c), game.ver, c.index)
    [] c.fn = "frame_pre" -> frame_pre(FrameAt(c), game.ver, PortIdOf(c))
    [] c.fn = "frame_post" -> frame_post(PostOf(c), game.ver, PortIdOf(c))
    [] c.fn = "item" -> item(FrameAt(c).items[c.item], game.ver, c.index)
    [] c.fn = "frame_end" -> frame_end(FrameAt(c), game.ver, c.index)

\* what unparse hands to a sink that accepts everything, for one iteration
\* order of the payload-size table
FullOutput(ord) ==
  LET st == game_start(game.start, game.ver)
  IN  <<123, 85, 3, 114, 97, 119, 91, 36, 85, 35, 108, 0, 0, 0, 0>>
        \o payloads_event(payload_sizes(game.ver), ord)
        \o st.out
        \o (IF st.ok
            THEN Flatten([j \in 1..Len(Calls) |-> call_bytes(Calls[j])])
                   \o game_end(game, game.ver)
                   \o <<85, 8, 109, 101, 116, 97, 100, 97, 116, 97, 123>>
                   \o unparse_map(game.metadata_raw) \o <<125, 125>>
            ELSE <<>>)

C7_SinkFailureAborts ==
  /\ [](result = "Err" =>
          /\ pc = "done"
          /\ \E ord \in (IF order = <<>> THEN IterOrders(payload_sizes(game.ver))
                                          ELSE {order}) :
               LET full == FullOutput(ord)
               IN  IsPrefix(w, full) /\ Len(w) < Len(full))
  /\ [][result = "Err" => UNCHANGED <<w, log, pc, result>>]_vars

C7_Witness ==
  /\ result = "Err"
  /\ Len(FrameLog) >= 2
  /\ Len(w) > log[Len(log)].off + log[Len(log)].len

(* C8: at a fixed version game_start writes the same number of bytes for   *)
(* every player count 0..NUM_PORTS; an empty slot gets an all-zero record  *)
(* (but for the type tag 3 of the base block) as wide as a populated one:  *)
(* 36 bytes in the base block, 8 of UCF at >= 1.0, 16 of name tag at       *)
(* >= 1.3, 41 of netplay at >= 3.9.                                        *)

\* where game_start began to write, and how many bytes it has written
StartOff == log[2].off + log[2].len
StartWritten == IF Len(log) >= 3 THEN log[3].len ELSE Len(w) - StartOff

\* the n bytes at offset o of the game-start event (none when they were
\* not written)
StartField(o, n) ==
  IF StartOff + o + n <= Len(w) THEN SubSeq(w, StartOff + o + 1, StartOff + o + n) ELSE <<>>

NoPlayers == [players |-> <<>>]

C8_StartPadding ==
  Len(log) >= 3 =>
    LET P == Len(game.start.players)
        v == game.ver
    IN  /\ log[3].len = Len(game_start(NoPlayers, v).out)
        /\ \A j \in (P + 1)..MAX_PLAYERS :
             StartField(101 + 36 * (j - 1), 36) = <<0, 3>> \o Zeros(34)
        /\ \A j \in (P + 1)..NUM_PORTS :
             /\ VerGE(v, <<1, 0, 0>>) => StartField(321 + 8 * (j - 1), 8) = Zeros(8)
             /\ VerGE(v, <<1, 3, 0>>) => StartField(353 + 16 * (j - 1), 16) = Zeros(16)
             /\ VerGE(v, <<3, 9, 0>>) => StartField(421 + 41 * (j - 1), 41) = Zeros(41)
        /\ VerGE(v, <<3, 9, 0>>) => log[3].len = 421 + 41 * NUM_PORTS

C8_Witness ==
  /\ Len(log) >= 3
  /\ VerGE(game.ver, <<3, 9, 0>>)
  /\ Len(game.start.players) \in 1..(NUM_PORTS - 1)

(* C9: a name tag (16 bytes), netplay name (31) or netplay code (10) whose *)
(* encoded form is longer than its budget ends the encode fatally before   *)
(* any byte of that field is written, and the encode never returns Ok; a   *)
(* text that fits is written as the encoded text padded with zeros to the  *)
(* budget.                                                                 *)

\* the text fields game_start writes at the game's version, in the order it
\* writes them: [text, off, max]
TextFields ==
  LET ps == game.start.players
  IN  (IF VerGE(game.ver, <<1, 3, 0>>)
       THEN [j \in 1..Len(ps) |-> [text |-> ps[j].name_tag, off |-> 353 + 16 * (j - 1), max |-> 16]]
       ELSE <<>>)
        \o (IF VerGE(game.ver, <<3, 9, 0>>)
            THEN Flatten([j \in 1..Len(ps) |->
                   << [text |-> ps[j].netplay.name, off |-> 421 + 41 * (j - 1), max |-> 31],
                      [text |-> ps[j].netplay.code, off |-> 452 + 41 * (j - 1), max |-> 10] >>])
            ELSE <<>>)

TooLong(f) == Len(ShiftJisEncode(f.text)) > f.max

C9_TextBudget ==
  /\ (\E i \in DOMAIN TextFields : TooLong(TextFields[i])) => result # "Ok"
  /\ result = "Panic" =>
       \E i \in DOMAIN TextFields :
         /\ TooLong(TextFields[i])
         /\ \A h \in 1..(i - 1) : ~TooLong(TextFields[h])
         /\ StartWritten = TextFields[i].off
         /\ Len(w) = StartOff + StartWritten
  /\ (Len(log) >= 3 \/ result = "Panic") =>
       \A i \in DOMAIN TextFields :
         LET f == TextFields[i]
             enc == ShiftJisEncode(f.text)
         IN  f.off + f.max <= StartWritten =>
               /\ ~TooLong(f)
               /\ StartField(f.off, f.max) = enc \o Zeros(f.max - Len(enc))

C9_Witness ==
  /\ result = "Panic"
  /\ Len(game.start.players) >= 2
  /\ VerGE(game.ver, <<3, 9, 0>>)
  /\ ~TooLong(TextFields[1])

(* C10: every event of the k-th frame (from 0) carries the index           *)
(* FIRST_FRAME_INDEX + k; the pre records of a frame, and its post         *)
(* records, carry the 0-based position of their port slot and a follower   *)
(* flag that is 1 exactly for the follower; no two pre records and no two  *)
(* post records carry the same (index, port, follower).                    *)

\* the number of events frames() writes for a frame
EventsIn(f) ==
  (IF VerGE(game.ver, <<2, 2, 0>>) THEN 1 ELSE 0)
    + 2 * Len(f.ports) + 2 * Cardinality({i \in DOMAIN f.ports : f.ports[i].follower})
    + (IF VerGE(game.ver, <<3, 0, 0>>) THEN Len(f.items) + 1 ELSE 0)

RECURSIVE EventsBefore(_)
EventsBefore(k) == IF k <= 1 THEN 0 ELSE EventsBefore(k - 1) + EventsIn(game.frames[k - 1])

\* the frame (from 1) the j-th event of the stream belongs to
FrameNo(j) == CHOOSE k \in DOMAIN game.frames : EventsBefore(k) < j /\ j <= EventsBefore(k + 1)

\* the <<port, follower>> keys of the records with this tag in frame k,
\* d being the decoded stream
KeysOf(d, tag, k) ==
  LET lo == EventsBefore(k)
      hi == Min(Len(d), EventsBefore(k + 1))
      mine == SelectSeq([j \in 1..(hi - lo) |-> d[lo + j]], LAMBDA x : x[1] = tag)
  IN  [m \in 1..Len(mine) |-> <<mine[m][3], mine[m][4]>>]

SlotKeys(k) ==
  Flatten([i \in 1..Len(game.frames[k].ports) |->
             <<(<<i - 1, 0>>)>>
               \o (IF game.frames[k].ports[i].follower THEN <<(<<i - 1, 1>>)>> ELSE <<>>)])

C10_RecordIdentity ==
  LET d == Decoded
  IN  /\ \A j \in DOMAIN d : d[j][2] = FIRST_FRAME_INDEX + (FrameNo(j) - 1)
      /\ d # <<>> => d[1][2] = FIRST_FRAME_INDEX
      /\ \A j \in 1..(Len(d) - 1) : d[j + 1][2] - d[j][2] \in {0, 1}
      /\ \A tag \in {EventCode.FramePre, EventCode.FramePost} :
           /\ \A k \in DOMAIN game.frames :
                IF FramesReturned THEN KeysOf(d, tag, k) = SlotKeys(k)
                                  ELSE IsPrefix(KeysOf(d, tag, k), SlotKeys(k))
           /\ \A i, j \in DOMAIN d :
                (i # j /\ d[i][1] = tag /\ d[j][1] = tag)
                  => <<d[i][2], d[i][3], d[i][4]>> # <<d[j][2], d[j][3], d[j][4]>>

C10_Witness ==
  /\ result = "Ok"
  /\ Len(game.frames) >= 2
  /\ \E k \in DOMAIN game.frames :
       /\ Len(game.frames[k].ports) >= 2
       /\ game.frames[k].ports[2].follower

====
